---- MODULE Spec2Model ----
(***************************************************************************)
(* Model of the mini MTN MoMo collections client (src/mini/src/lib.rs,     *)
(* src/src/lib.rs), of the Msisdn normalizer and of the PaymentStatus and  *)
(* Currency codecs (src/mtn/common/src).                                   *)
(*                                                                         *)
(* Strings the code inspects character by character (mobile numbers,       *)
(* callback hosts) are sequences of one-character strings.                 *)
(*                                                                         *)
(* The client is synchronous: one caller, one call in progress.  A call is *)
(* cut at its blocking transport sends: an action runs the handler up to   *)
(* and including a send, the next one takes the transport's answer and     *)
(* runs the handler to its next send or to its return.                     *)
(***************************************************************************)
EXTENDS Integers, Sequences, FiniteSets, TLC

VARIABLES
    pc,                        \* "none" | "token" | "op" | "idle"
    caller,                    \* the caller's invocation in progress
    args,                      \* arguments of the invocation in progress
    reauthorize,               \* Client.reauthorize
    collections_access_token,  \* Client.collections_access_token
    callback_host,             \* Client.callback_host
    base_url,                  \* Client.base_url
    target_environment,        \* Client.target_environment
    config,                    \* the Config new was called with
    credentials,               \* Client.username, password, subscription_key
    request,                   \* the request last handed to the transport
    response,                  \* the transport's answer to it
    result,                    \* what the last finished invocation returned
    sends,                     \* operation requests sent by this invocation
    auths,                     \* token requests sent by this invocation
    entered,                   \* Client.reauthorize when it was entered
    uuid,                      \* the identifier Uuid::new_v4 returned last
    other,                     \* a second caller's invocation, while it waits
    mutex,                     \* the callers take turns call by call
    mobile_number,             \* normalizer: raw input
    default_country,           \* normalizer: default country
    alternate_countries,       \* normalizer: alternates, in order
    parsed,                    \* normalizer: outcome of Msisdn::parse
    codec,                     \* codecs: the enumeration converted
    given,                     \* codecs: the member or string started from
    encoded,                   \* codecs: what to_string wrote
    decoded,                   \* codecs: what from_str returned
    strip_string,              \* stripper: the string handed to strip_lead_char
    strip_character,           \* stripper: the character to strip
    strip_multiple,            \* stripper: strip the whole run
    strip_result               \* stripper: what strip_lead_char returned

vars == <<pc, caller, args, reauthorize, collections_access_token,
          callback_host, base_url, target_environment, config, credentials,
          request, response, result, sends, auths, entered, uuid, other, mutex,
          mobile_number, default_country, alternate_countries, parsed,
          codec, given, encoded, decoded,
          strip_string, strip_character, strip_multiple, strip_result>>

clientVars == <<pc, caller, args, reauthorize, collections_access_token,
                callback_host, base_url, target_environment, config, credentials,
                request, response, result, sends, auths, entered, uuid, other, mutex>>

\* what belongs to a second caller and to the callers' discipline
threadVars == <<other, mutex>>

normVars == <<mobile_number, default_country, alternate_countries, parsed>>

codecVars == <<codec, given, encoded, decoded>>

stripVars == <<strip_string, strip_character, strip_multiple, strip_result>>

----------------------------------------------------------------------------
(* Bounds *)

\* sends and auths count up to MaxCalls and then stay there
MaxCalls == 3

\* at most this many '-' separators are put into a generated mobile number
MaxSeparators == 1

\* the longest digit-free input
MaxNonDigits == 3

\* the most digits of an over-long input
MaxDigits == 14

\* the most zeros before a prefix
MaxLeadZeros == 2

\* the most zeros between a prefix and the local number
MaxInnerZeros == 3

\* the longest string handed to strip_lead_char on its own
MaxStringLen == 4

----------------------------------------------------------------------------
(* Constants of the program *)

OK == 200
ACCEPTED == 202
UNAUTHORIZED == 401

FALLBACK_CALLBACK_HOST == <<"w","w","w",".","m","o","c","k","y",".","i","o">>

FALLBACK_CALLBACK_URL == "https://www.mocky.io/v2/5ec0fa1c2f000079004c86fb"

PRODUCTION_BASE_URL ==
    <<"h","t","t","p","s",":","/","/","m","o","m","o","d","e","v","e","l","o","p","e","r",".","m","t","n",".","c","o","m">>

SANDBOX_BASE_URL ==
    <<"h","t","t","p","s",":","/","/","s","a","n","d","b","o","x",".","m","o","m","o","d","e","v","e","l","o","p","e","r",".","m","t","n",".","c","o","m","/">>

PRODUCTION == "production"

SANDBOX == "sandbox"

\* the paths the client appends to its base_url
TOKEN_PATH ==
    <<"c","o","l","l","e","c","t","i","o","n","/","t","o","k","e","n","/">>

REQUESTTOPAY_PATH ==
    <<"c","o","l","l","e","c","t","i","o","n","/","v","1","_","0","/","r","e","q","u","e","s","t","t","o","p","a","y","/">>

BALANCE_PATH ==
    <<"c","o","l","l","e","c","t","i","o","n","/","v","1","_","0","/","a","c","c","o","u","n","t","/","b","a","l","a","n","c","e">>

MOCKY_IO == <<"m","o","c","k","y",".","i","o">>

GHANA == [code |-> "GH", prefix |-> <<"2","3","3">>, non_prefix_digits |-> 9]

NIGERIA == [code |-> "NG", prefix |-> <<"2","3","4">>, non_prefix_digits |-> 8]

----------------------------------------------------------------------------
(* str helpers *)

\* str::starts_with
starts_with(s, p) ==
    /\ Len(p) <= Len(s)
    /\ SubSeq(s, 1, Len(p)) = p

\* str::ends_with
ends_with(s, p) ==
    /\ Len(p) <= Len(s)
    /\ SubSeq(s, Len(s) - Len(p) + 1, Len(s)) = p

----------------------------------------------------------------------------
(* Values *)

\* Option<T>
None == [some |-> FALSE]

Some(x) == [some |-> TRUE, value |-> x]

\* Result<T>
Ok(v) == [ok |-> TRUE, value |-> v]

Err(e) == [ok |-> FALSE, error |-> e]

NoResult == Err("no result")

NoRequest == [kind |-> "none", url |-> <<>>, bearer |-> "",
              target_environment |-> "", partyId |-> <<>>,
              callback_url |-> "", reference_id |-> "", externalId |-> ""]

NoResponse == [delivered |-> FALSE, status |-> 0, body |-> ""]

NoConfig == [base_url |-> None, callback_host |-> None]

NoCredentials == [username |-> "", password |-> "", subscription_key |-> ""]

NoArgs == [msisdn |-> <<>>, callback_url |-> None, reference_id |-> ""]

\* a caller between two calls that has not called yet
NoCall == [pc |-> "idle", caller |-> "none", args |-> NoArgs,
           request |-> NoRequest, response |-> NoResponse,
           result |-> NoResult, sends |-> 0, auths |-> 0, entered |-> FALSE]

Bump(n) == IF n < MaxCalls THEN n + 1 ELSE n

----------------------------------------------------------------------------
(* Inputs: what the caller passes and what the gateway answers *)

NUGGET_DIGITAL == <<"n","u","g","g","e","t",".","d","i","g","i","t","a","l">>

NOT_MOCKY_IO == <<"n","o","t","m","o","c","k","y",".","i","o">>

CallbackHosts == {FALLBACK_CALLBACK_HOST, MOCKY_IO, NUGGET_DIGITAL, NOT_MOCKY_IO}

\* the production url over http
HTTP_PRODUCTION_URL ==
    <<"h","t","t","p",":","/","/","m","o","m","o","d","e","v","e","l","o","p","e","r",".","m","t","n",".","c","o","m","/">>

\* base urls a Config may carry: the production url without and with
\* trailing slashes, the sandbox url, a url of another host that begins
\* like the production url, and the production url over http
BaseUrls ==
    {PRODUCTION_BASE_URL, PRODUCTION_BASE_URL \o <<"/">>,
     PRODUCTION_BASE_URL \o <<"/", "/">>, SANDBOX_BASE_URL,
     PRODUCTION_BASE_URL \o <<".", "x", "y", "/">>, HTTP_PRODUCTION_URL}

\* Config, without the credentials: each field alone is varied, and both
\* are set for a production client
Configs ==
    {[base_url |-> None, callback_host |-> h] :
        h \in {None} \cup {Some(x) : x \in CallbackHosts}}
    \cup {[base_url |-> Some(u), callback_host |-> None] : u \in BaseUrls}
    \cup {[base_url |-> Some(PRODUCTION_BASE_URL \o <<"/">>),
           callback_host |-> Some(NUGGET_DIGITAL)]}

\* the username, password and subscription_key a Config may carry
Credentials ==
    {[username |-> "user-1", password |-> "password-1", subscription_key |-> "key-1"],
     [username |-> "user-2", password |-> "password-2", subscription_key |-> "key-2"]}

CallbackUrls == {None, Some(FALLBACK_CALLBACK_URL), Some("https://nugget.digital/momo")}

RawMobileNumber == <<"0","5","4","2","3","7","3","7","2","2">>

CanonicalMobileNumber == <<"2","3","3","5","4","2","3","7","3","7","2","2">>

MobileNumbers == {RawMobileNumber, CanonicalMobileNumber}

Uuids == {"uuid-1", "uuid-2", "uuid-3"}

Tokens == {"token-1", "token-2"}

Malformed == "<malformed>"

StatusCodes == {OK, ACCEPTED, UNAUTHORIZED, 500}

PaymentStatusStrings ==
    {"SUCCESSFUL", "FAILED", "PENDING", "UNKNOWN", "", "successful", "Pending"}

Bodies(kind) ==
    CASE kind = "token" -> Tokens \cup {Malformed}
      [] kind = "status" -> PaymentStatusStrings \cup {Malformed}
      [] kind = "balance" -> {"<balance>", Malformed}
      [] OTHER -> {""}

\* what the transport can return for a request: an error (nothing
\* delivered), or a status with a body; the body is looked at on 200 only
Responses(kind) ==
    {NoResponse}
      \cup {[delivered |-> TRUE, status |-> s, body |-> ""] :
               s \in StatusCodes \ {OK}}
      \cup {[delivered |-> TRUE, status |-> OK, body |-> b] : b \in Bodies(kind)}

----------------------------------------------------------------------------
(* PaymentStatus codec *)

PaymentStatus == {"Resolved", "Rejected", "Pending"}

\* from_str taking every other string for a pending payment
from_str_lenient(status) ==
    CASE status = "SUCCESSFUL" -> Ok("Resolved")
      [] status = "FAILED" -> Ok("Rejected")
      [] OTHER -> Ok("Pending")

from_str(status) ==
    CASE status = "SUCCESSFUL" -> Ok("Resolved")
      [] status = "FAILED" -> Ok("Rejected")
      [] status = "PENDING" -> Ok("Pending")
      [] OTHER -> Err("unknown payment status")

\* to_string with the strings of Rejected and Pending exchanged
to_string_swapped(payment_status) ==
    CASE payment_status = "Resolved" -> "SUCCESSFUL"
      [] payment_status = "Rejected" -> "PENDING"
      [] payment_status = "Pending" -> "FAILED"

to_string(payment_status) ==
    CASE payment_status = "Resolved" -> "SUCCESSFUL"
      [] payment_status = "Rejected" -> "FAILED"
      [] payment_status = "Pending" -> "PENDING"

----------------------------------------------------------------------------
(* Currency codec *)

Currency == {"Cedi", "Naira"}

\* Currency::from_str taking every other string for cedi
Currency_from_str_lenient(currency_str) ==
    CASE currency_str = "NGN" -> Ok("Naira")
      [] OTHER -> Ok("Cedi")

Currency_from_str(currency_str) ==
    CASE currency_str = "GHS" -> Ok("Cedi")
      [] currency_str = "NGN" -> Ok("Naira")
      [] OTHER -> Err("unknown currency")

Currency_to_string(currency) ==
    CASE currency = "Cedi" -> "GHS"
      [] currency = "Naira" -> "NGN"

----------------------------------------------------------------------------
(* The codecs alone *)

Codecs == {"PaymentStatus", "Currency"}

Members(c) == IF c = "PaymentStatus" THEN PaymentStatus ELSE Currency

\* strings handed to from_str: the wire strings of both enumerations, the
\* empty string, and strings close to them
WireStrings ==
    {"SUCCESSFUL", "FAILED", "PENDING", "GHS", "NGN",
     "", "UNKNOWN", "successful", "Successful", "failed", "Failed",
     "pending", "Pending", "ghs", "Ghs", "ngn", "Ngn",
     " SUCCESSFUL", "SUCCESSFUL ", "PENDING\n", " GHS", "NGN ",
     "SUCCESS", "FAIL", "Resolved", "Rejected", "Cedi", "Naira",
     "USD", "EUR", "GH", "NG", "0", "null"}

GivenMember(m) == [is |-> "member", value |-> m]

GivenString(w) == [is |-> "string", value |-> w]

NoGiven == [is |-> "nothing", value |-> ""]

StripIdle ==
    /\ strip_string = <<>>
    /\ strip_character = "0"
    /\ strip_multiple = FALSE
    /\ strip_result = NoResult

CodecIdle ==
    /\ codec = "none"
    /\ given = NoGiven
    /\ encoded = None
    /\ decoded = NoResult

\* the caller formats a member it has: the one given, or the one decoded
CallToString ==
    /\ ~encoded.some
    /\ \/ given.is = "member"
       \/ decoded # NoResult /\ decoded.ok
    /\ LET member == IF given.is = "member" THEN given.value ELSE decoded.value
       IN  encoded' = Some(IF codec = "PaymentStatus" THEN to_string(member)
                           ELSE Currency_to_string(member))
    /\ UNCHANGED <<codec, given, decoded>>
    /\ UNCHANGED <<clientVars, normVars, stripVars>>

\* the caller parses a string it has: the one given, or the one formatted
CallFromStr ==
    /\ decoded = NoResult
    /\ \/ given.is = "string"
       \/ encoded.some
    /\ LET string == IF given.is = "string" THEN given.value ELSE encoded.value
       IN  decoded' = IF codec = "PaymentStatus" THEN from_str(string)
                      ELSE Currency_from_str(string)
    /\ UNCHANGED <<codec, given, encoded>>
    /\ UNCHANGED <<clientVars, normVars, stripVars>>

---------------------------------------------------------------------------------------------------------------------------------------------------
(* Client *)

Ops == {"request_to_pay", "request_to_pay_status", "get_balance"}

\* the invocation in progress returns r to the caller
return(r) ==
    /\ pc' = "idle"
    /\ result' = r
    /\ caller' = "none"

\* cb_url without the test of the callback host
cb_url_any_host(callback_url, host) ==
    IF callback_url.some THEN Ok(callback_url.value)
    ELSE Ok(FALLBACK_CALLBACK_URL)

\* request_to_pay: which callback url goes into X-Callback-Url
cb_url(callback_url, host) ==
    IF callback_url.some THEN Ok(callback_url.value)
    ELSE IF ends_with(host, MOCKY_IO) THEN Ok(FALLBACK_CALLBACK_URL)
    ELSE Err("configuration")

\* authorize_send leaving reauthorize as it is
authorize_send_unguarded(base, n) ==
    /\ reauthorize' = reauthorize
    /\ request' = [NoRequest EXCEPT !.kind = "token",
                                    !.url = base \o TOKEN_PATH]
    /\ auths' = Bump(n)
    /\ pc' = "token"
    /\ UNCHANGED uuid

\* authorize_collections from its entry to its send, with base the client's
\* base_url; n token requests were sent by this invocation before
authorize_send(base, n) ==
    /\ reauthorize' = FALSE
    /\ request' = [NoRequest EXCEPT !.kind = "token",
                                    !.url = base \o TOKEN_PATH]
    /\ auths' = Bump(n)
    /\ pc' = "token"
    /\ UNCHANGED uuid

\* Uuid::new_v4: an identifier it did not return the last time
new_v4 == Uuids \ {uuid}

\* request_to_pay_send keeping its identifier when it sends once more
request_to_pay_send_same_id(a, token, host, n) ==
    LET cb == cb_url(a.callback_url, host) IN
    IF cb.ok
    THEN \E reference_id \in (IF n > 0 THEN {uuid} ELSE new_v4) :
           /\ uuid' = reference_id
           /\ request' = [kind |-> "requesttopay",
                          url |-> base_url \o REQUESTTOPAY_PATH,
                          bearer |-> token,
                          target_environment |-> target_environment,
                          partyId |-> a.msisdn, callback_url |-> cb.value,
                          reference_id |-> reference_id,
                          externalId |-> reference_id]
           /\ sends' = Bump(n)
           /\ pc' = "op"
           /\ caller' = "request_to_pay"
           /\ args' = a
           /\ result' = NoResult
    ELSE /\ return(Err(cb.error))
         /\ uuid' \in new_v4
         /\ args' = a
         /\ sends' = n
         /\ UNCHANGED request

\* request_to_pay from its entry to its send, bearing token; n operation
\* requests were sent by this invocation before
request_to_pay_send(a, token, host, n) ==
    LET cb == cb_url(a.callback_url, host) IN
    IF cb.ok
    THEN \E reference_id \in new_v4 :
           /\ uuid' = reference_id
           /\ request' = [kind |-> "requesttopay",
                          url |-> base_url \o REQUESTTOPAY_PATH,
                          bearer |-> token,
                          target_environment |-> target_environment,
                          partyId |-> a.msisdn, callback_url |-> cb.value,
                          reference_id |-> reference_id,
                          externalId |-> reference_id]
           /\ sends' = Bump(n)
           /\ pc' = "op"
           /\ caller' = "request_to_pay"
           /\ args' = a
           /\ result' = NoResult
    ELSE /\ return(Err(cb.error))
         /\ uuid' \in new_v4
         /\ args' = a
         /\ sends' = n
         /\ UNCHANGED request

\* request_to_pay_status from its entry to its send
request_to_pay_status_send(a, token, n) ==
    /\ request' = [NoRequest EXCEPT
                       !.kind = "status",
                       !.url = base_url \o REQUESTTOPAY_PATH \o <<a.reference_id>>,
                       !.bearer = token,
                       !.target_environment = target_environment,
                       !.reference_id = a.reference_id]
    /\ sends' = Bump(n)
    /\ pc' = "op"
    /\ caller' = "request_to_pay_status"
    /\ args' = a
    /\ result' = NoResult
    /\ UNCHANGED uuid

\* get_balance from its entry to its send
get_balance_send(token, n) ==
    /\ request' = [NoRequest EXCEPT
                       !.kind = "balance",
                       !.url = base_url \o BALANCE_PATH,
                       !.bearer = token,
                       !.target_environment = target_environment]
    /\ sends' = Bump(n)
    /\ pc' = "op"
    /\ caller' = "get_balance"
    /\ args' = NoArgs
    /\ result' = NoResult
    /\ UNCHANGED uuid

\* the handler named op, entered with arguments a
op_send(op, a, token, host, n) ==
    CASE op = "request_to_pay" -> request_to_pay_send(a, token, host, n)
      [] op = "request_to_pay_status" -> request_to_pay_status_send(a, token, n)
      [] op = "get_balance" -> get_balance_send(token, n)

----------------------------------------------------------------------------
(* Client: what the caller does *)

\* new_base_url falling back to the production url
new_base_url_production(cfg) ==
    IF cfg.base_url.some
    THEN IF ends_with(cfg.base_url.value, <<"/">>)
         THEN cfg.base_url.value
         ELSE cfg.base_url.value \o <<"/">>
    ELSE PRODUCTION_BASE_URL \o <<"/">>

\* the base_url Client::new stores
new_base_url(cfg) ==
    IF cfg.base_url.some
    THEN IF ends_with(cfg.base_url.value, <<"/">>)
         THEN cfg.base_url.value
         ELSE cfg.base_url.value \o <<"/">>
    ELSE SANDBOX_BASE_URL

\* new_target_environment taking the production url itself only
new_target_environment_exact(cfg) ==
    IF cfg.base_url.some
    THEN IF cfg.base_url.value \in {PRODUCTION_BASE_URL,
                                    PRODUCTION_BASE_URL \o <<"/">>}
         THEN PRODUCTION
         ELSE SANDBOX
    ELSE SANDBOX

\* the target_environment Client::new stores
new_target_environment(cfg) ==
    IF cfg.base_url.some
    THEN IF starts_with(cfg.base_url.value, PRODUCTION_BASE_URL)
         THEN PRODUCTION
         ELSE SANDBOX
    ELSE SANDBOX

\* the callback_host Client::new stores
new_callback_host(cfg) ==
    IF cfg.callback_host.some
    THEN cfg.callback_host.value
    ELSE FALLBACK_CALLBACK_HOST

\* Client::new up to the send of authorize_collections
New(cfg) ==
    /\ pc = "none"
    /\ entered' = FALSE
    /\ config' = cfg
    /\ credentials' \in Credentials
    /\ base_url' = new_base_url(cfg)
    /\ target_environment' = new_target_environment(cfg)
    /\ callback_host' = new_callback_host(cfg)
    /\ collections_access_token' = ""
    /\ caller' = "new"
    /\ args' = NoArgs
    /\ result' = NoResult
    /\ sends' = 0
    /\ response' = NoResponse
    /\ authorize_send(new_base_url(cfg), 0)
    /\ UNCHANGED <<normVars, codecVars, threadVars, stripVars>>

\* the caller invokes authorize_collections
CallAuthorize ==
    /\ pc = "idle"
    /\ entered' = reauthorize
    /\ caller' = "authorize_collections"
    /\ args' = NoArgs
    /\ result' = NoResult
    /\ sends' = 0
    /\ response' = NoResponse
    /\ authorize_send(base_url, 0)
    /\ UNCHANGED <<collections_access_token, callback_host,
                   base_url, target_environment, config, credentials>>
    /\ UNCHANGED <<normVars, codecVars, threadVars, stripVars>>

\* the caller invokes request_to_pay
CallRequestToPay(msisdn, callback_url) ==
    /\ pc = "idle"
    /\ entered' = reauthorize
    /\ auths' = 0
    /\ response' = NoResponse
    /\ request_to_pay_send([NoArgs EXCEPT !.msisdn = msisdn,
                                          !.callback_url = callback_url],
                           collections_access_token, callback_host, 0)
    /\ UNCHANGED <<reauthorize, collections_access_token, callback_host,
                   base_url, target_environment, config, credentials>>
    /\ UNCHANGED <<normVars, codecVars, threadVars, stripVars>>

\* the caller invokes request_to_pay_status
CallRequestToPayStatus(reference_id) ==
    /\ pc = "idle"
    /\ entered' = reauthorize
    /\ auths' = 0
    /\ response' = NoResponse
    /\ request_to_pay_status_send([NoArgs EXCEPT !.reference_id = reference_id],
                                  collections_access_token, 0)
    /\ UNCHANGED <<reauthorize, collections_access_token, callback_host,
                   base_url, target_environment, config, credentials>>
    /\ UNCHANGED <<normVars, codecVars, threadVars, stripVars>>

\* the caller invokes get_balance
CallGetBalance ==
    /\ pc = "idle"
    /\ entered' = reauthorize
    /\ auths' = 0
    /\ response' = NoResponse
    /\ get_balance_send(collections_access_token, 0)
    /\ UNCHANGED <<reauthorize, collections_access_token, callback_host,
                   base_url, target_environment, config, credentials>>
    /\ UNCHANGED <<normVars, codecVars, threadVars, stripVars>>

----------------------------------------------------------------------------
(* Client: the transport answers *)

\* authorize_result taking 202 for a success as well
authorize_result_accepted(r) ==
    IF ~r.delivered THEN Err("transport")
    ELSE IF r.status \notin {OK, ACCEPTED} THEN Err("authorization")
    ELSE IF r.body = Malformed THEN Err("decode")
    ELSE Ok(r.body)

\* authorize_collections: what it returns once the token endpoint answered r
authorize_result(r) ==
    IF ~r.delivered THEN Err("transport")
    ELSE IF r.status # OK THEN Err("authorization")
    ELSE IF r.body = Malformed THEN Err("decode")
    ELSE Ok(r.body)

\* new_return without the ? on authorize_collections
new_return_unchecked(res) ==
    /\ return(IF res.ok THEN Ok("client") ELSE res)
    /\ UNCHANGED <<args, request, sends, uuid>>

\* Client::new once authorize_collections returned res
new_return(res) ==
    /\ IF res.ok
       THEN return(Ok("client"))
       ELSE /\ pc' = "none"
            /\ result' = res
            /\ caller' = "none"
    /\ UNCHANGED <<args, request, sends, uuid>>

\* the caller's own authorize_collections returns res
authorize_return(res) ==
    /\ return(IF res.ok THEN Ok("client") ELSE res)
    /\ UNCHANGED <<args, request, sends, uuid>>

\* op_reauthorized without the ? on authorize_collections
op_reauthorized_unchecked(res) ==
    op_send(caller, args, collections_access_token', callback_host, sends)

\* op_reauthorized replaying with the token the client held before
op_reauthorized_stale(res) ==
    IF res.ok
    THEN op_send(caller, args, collections_access_token, callback_host, sends)
    ELSE /\ return(res)
         /\ UNCHANGED <<args, request, sends, uuid>>

\* an operation once the authorize_collections it called returned res: the
\* error is passed on, else the operation calls itself with its arguments
op_reauthorized(res) ==
    IF res.ok
    THEN op_send(caller, args, res.value, callback_host, sends)
    ELSE /\ return(res)
         /\ UNCHANGED <<args, request, sends, uuid>>

\* authorize_collections from the answer of the token endpoint to its
\* return, and on from there in the function that called it
TokenResponse(r) ==
    /\ pc = "token"
    /\ response' = r
    /\ LET res == authorize_result(r) IN
       /\ IF res.ok
          THEN /\ collections_access_token' = res.value
               /\ reauthorize' = TRUE
          ELSE UNCHANGED <<collections_access_token, reauthorize>>
       /\ CASE caller = "new" -> new_return(res)
            [] caller = "authorize_collections" -> authorize_return(res)
            [] caller \in Ops -> op_reauthorized(res)
    /\ UNCHANGED <<callback_host, base_url, target_environment, config, credentials, auths,
                   entered>>
    /\ UNCHANGED <<normVars, codecVars, threadVars, stripVars>>

\* op_response taking 200 and 202 alike as the success status
op_response_ok_or_accepted(r, success, value) ==
    /\ response' = r
    /\ IF ~r.delivered
       THEN /\ return(Err("transport"))
            /\ UNCHANGED <<reauthorize, request, auths, uuid>>
       ELSE IF r.status \in {OK, ACCEPTED}
       THEN /\ return(IF r.status = success THEN value ELSE Ok(r.body))
            /\ UNCHANGED <<reauthorize, request, auths, uuid>>
       ELSE IF r.status = UNAUTHORIZED /\ reauthorize
       THEN /\ authorize_send(base_url, auths)
            /\ UNCHANGED <<caller, result>>
       ELSE /\ return(Err("operation"))
            /\ UNCHANGED <<reauthorize, request, auths, uuid>>
    /\ UNCHANGED <<args, entered, collections_access_token, callback_host,
                   base_url, target_environment, config, credentials, sends>>
    /\ UNCHANGED <<normVars, codecVars, threadVars, stripVars>>

\* op_response re-authorizing when the request was not delivered
op_response_transport_retried(r, success, value) ==
    /\ response' = r
    /\ IF r.delivered /\ r.status = success
       THEN /\ return(value)
            /\ UNCHANGED <<reauthorize, request, auths, uuid>>
       ELSE IF (~r.delivered \/ r.status = UNAUTHORIZED) /\ reauthorize
       THEN /\ authorize_send(base_url, auths)
            /\ UNCHANGED <<caller, result>>
       ELSE /\ return(IF r.delivered THEN Err("operation") ELSE Err("transport"))
            /\ UNCHANGED <<reauthorize, request, auths, uuid>>
    /\ UNCHANGED <<args, entered, collections_access_token, callback_host,
                   base_url, target_environment, config, credentials, sends>>
    /\ UNCHANGED <<normVars, codecVars, threadVars, stripVars>>

\* op_response that never re-authorizes
op_response_never_retried(r, success, value) ==
    /\ response' = r
    /\ return(IF ~r.delivered THEN Err("transport")
              ELSE IF r.status = success THEN value
              ELSE Err("operation"))
    /\ UNCHANGED <<reauthorize, request, auths, uuid>>
    /\ UNCHANGED <<args, entered, collections_access_token, callback_host,
                   base_url, target_environment, config, credentials, sends>>
    /\ UNCHANGED <<normVars, codecVars, threadVars, stripVars>>

\* what is common to the three operations once the transport answered r:
\* success is the operation's success status, value what it then returns
op_response(r, success, value) ==
    /\ response' = r
    /\ IF ~r.delivered
       THEN /\ return(Err("transport"))
            /\ UNCHANGED <<reauthorize, request, auths, uuid>>
       ELSE IF r.status = success
       THEN /\ return(value)
            /\ UNCHANGED <<reauthorize, request, auths, uuid>>
       ELSE IF r.status = UNAUTHORIZED /\ reauthorize
       THEN /\ authorize_send(base_url, auths)
            /\ UNCHANGED <<caller, result>>
       ELSE /\ return(Err("operation"))
            /\ UNCHANGED <<reauthorize, request, auths, uuid>>
    /\ UNCHANGED <<args, entered, collections_access_token, callback_host,
                   base_url, target_environment, config, credentials, sends>>
    /\ UNCHANGED <<normVars, codecVars, threadVars, stripVars>>

\* request_to_pay from the answer to its request on
RequestToPayResponse(r) ==
    /\ pc = "op"
    /\ caller = "request_to_pay"
    /\ op_response(r, ACCEPTED, Ok(request.reference_id))

\* request_to_pay_status from the answer to its request on
RequestToPayStatusResponse(r) ==
    /\ pc = "op"
    /\ caller = "request_to_pay_status"
    /\ op_response(r, OK, IF r.body = Malformed THEN Err("decode")
                          ELSE from_str(r.body))

\* get_balance from the answer to its request on
GetBalanceResponse(r) ==
    /\ pc = "op"
    /\ caller = "get_balance"
    /\ op_response(r, OK, IF r.body = Malformed THEN Err("decode")
                          ELSE Ok(r.body))

----------------------------------------------------------------------------
(* The client alone *)

Init ==
    /\ pc = "none"
    /\ caller = "none"
    /\ args = NoArgs
    /\ reauthorize = FALSE
    /\ collections_access_token = ""
    /\ callback_host = <<>>
    /\ base_url = <<>>
    /\ target_environment = ""
    /\ config = NoConfig
    /\ credentials = NoCredentials
    /\ request = NoRequest
    /\ response = NoResponse
    /\ result = NoResult
    /\ sends = 0
    /\ auths = 0
    /\ entered = FALSE
    /\ uuid = ""
    /\ other = NoCall
    /\ mutex = TRUE
    /\ mobile_number = <<>>
    /\ default_country = GHANA
    /\ alternate_countries = <<>>
    /\ parsed = NoResult
    /\ CodecIdle
    /\ StripIdle

Next ==
    \/ \E cfg \in Configs : New(cfg)
    \/ CallAuthorize
    \/ \E msisdn \in MobileNumbers, callback_url \in CallbackUrls :
         CallRequestToPay(msisdn, callback_url)
    \/ \E reference_id \in Uuids : CallRequestToPayStatus(reference_id)
    \/ CallGetBalance
    \/ \E r \in Responses("token") : TokenResponse(r)
    \/ \E r \in Responses("requesttopay") : RequestToPayResponse(r)
    \/ \E r \in Responses("status") : RequestToPayStatusResponse(r)
    \/ \E r \in Responses("balance") : GetBalanceResponse(r)

Spec == Init /\ [][Next]_vars

\* the transport answers every request it was handed
LiveSpec ==
    /\ Spec
    /\ WF_vars(\E r \in Responses("token") : TokenResponse(r))
    /\ WF_vars(\E r \in Responses("requesttopay") : RequestToPayResponse(r))
    /\ WF_vars(\E r \in Responses("status") : RequestToPayStatusResponse(r))
    /\ WF_vars(\E r \in Responses("balance") : GetBalanceResponse(r))

CodecInit ==
    /\ codec \in Codecs
    /\ given \in {GivenMember(m) : m \in Members(codec)} \cup {GivenString(w) : w \in WireStrings}
    /\ encoded = None
    /\ decoded = NoResult
    /\ pc = "none"
    /\ caller = "none"
    /\ args = NoArgs
    /\ reauthorize = FALSE
    /\ collections_access_token = ""
    /\ callback_host = <<>>
    /\ base_url = <<>>
    /\ target_environment = ""
    /\ config = NoConfig
    /\ credentials = NoCredentials
    /\ request = NoRequest
    /\ response = NoResponse
    /\ result = NoResult
    /\ sends = 0
    /\ auths = 0
    /\ entered = FALSE
    /\ uuid = ""
    /\ other = NoCall
    /\ mutex = TRUE
    /\ mobile_number = <<>>
    /\ default_country = GHANA
    /\ alternate_countries = <<>>
    /\ parsed = NoResult
    /\ StripIdle

CodecNext ==
    \/ CallToString
    \/ CallFromStr

CodecSpec == CodecInit /\ [][CodecNext]_vars

----------------------------------------------------------------------------
(* Two callers of one client *)

\* The handlers take &mut self, so two callers reach one Client through a
\* Mutex (src/mini/tests/int.rs) or not at all in safe code.  Without the
\* Mutex the callers' handlers interleave where they block on the transport;
\* with it a caller gives way between two of its calls only.  The waiting
\* caller's invocation is kept in other.
Switch ==
    /\ pc # "none"
    /\ mutex => pc = "idle" /\ other.pc = "idle"
    /\ other' = [pc |-> pc, caller |-> caller, args |-> args,
                 request |-> request, response |-> response,
                 result |-> result, sends |-> sends, auths |-> auths,
                 entered |-> entered]
    /\ pc' = other.pc
    /\ caller' = other.caller
    /\ args' = other.args
    /\ request' = other.request
    /\ response' = other.response
    /\ result' = other.result
    /\ sends' = other.sends
    /\ auths' = other.auths
    /\ entered' = other.entered
    /\ UNCHANGED <<reauthorize, collections_access_token, callback_host,
                   base_url, target_environment, config, credentials, mutex, uuid>>
    /\ UNCHANGED <<normVars, codecVars, stripVars>>

\* a client new returned, with the sandbox defaults, shared by two callers
\* with or without a Mutex
TwoCallersInit ==
    /\ mutex \in BOOLEAN
    /\ other = NoCall
    /\ pc = "idle"
    /\ caller = "none"
    /\ args = NoArgs
    /\ entered = FALSE
    /\ uuid = ""
    /\ config = NoConfig
    /\ credentials \in Credentials
    /\ base_url = new_base_url(NoConfig)
    /\ target_environment = new_target_environment(NoConfig)
    /\ callback_host = new_callback_host(NoConfig)
    /\ reauthorize = TRUE
    /\ collections_access_token \in Tokens
    /\ request = [NoRequest EXCEPT !.kind = "token",
                                   !.url = base_url \o TOKEN_PATH]
    /\ response = [delivered |-> TRUE, status |-> OK,
                   body |-> collections_access_token]
    /\ result = Ok("client")
    /\ sends = 0
    /\ auths = 1
    /\ mobile_number = <<>>
    /\ default_country = GHANA
    /\ alternate_countries = <<>>
    /\ parsed = NoResult
    /\ CodecIdle
    /\ StripIdle

TwoCallersNext ==
    \/ CallAuthorize
    \/ CallGetBalance
    \/ \E r \in Responses("token") : TokenResponse(r)
    \/ \E r \in Responses("balance") : GetBalanceResponse(r)
    \/ Switch

TwoCallersSpec == TwoCallersInit /\ [][TwoCallersNext]_vars

----------------------------------------------------------------------------
(* Msisdn normalizer *)

\* what the regex [^0-9]+ does not match
IsDigit(c) == c \in {"0","1","2","3","4","5","6","7","8","9"}

\* NUMBERS_ONLY leaving the string as it is
NUMBERS_ONLY_kept(string) == string

\* NUMBERS_ONLY.replace_all(mobile_number, "")
NUMBERS_ONLY(string) == SelectSeq(string, IsDigit)

\* the outcome of a read past the end of the bytes
Panic == <<"panic">>

\* the loop of strip_lead_char without the test of i against bytes.len()
RECURSIVE strip_lead_index_unbounded(_, _, _, _)
strip_lead_index_unbounded(bytes, character, multiple, i) ==
    IF i >= Len(bytes) THEN -1
    ELSE IF bytes[i + 1] = character
    THEN IF ~multiple
         THEN i + 1
         ELSE strip_lead_index_unbounded(bytes, character, multiple, i + 1)
    ELSE i

\* the loop of strip_lead_char, entered with index i (from 0): the index it
\* leaves the loop with, -1 when bytes[i] is read past the end
RECURSIVE strip_lead_index(_, _, _, _)
strip_lead_index(bytes, character, multiple, i) ==
    IF i >= Len(bytes) THEN -1
    ELSE IF bytes[i + 1] = character
    THEN IF i + 1 >= Len(bytes) \/ ~multiple
         THEN i + 1
         ELSE strip_lead_index(bytes, character, multiple, i + 1)
    ELSE i

\* strip_lead_char entering its loop on the empty string too
strip_lead_char_unguarded(string, character, multiple) ==
    LET i == strip_lead_index(string, character, multiple, 0) IN
    IF i < 0 THEN Panic ELSE SubSeq(string, i + 1, Len(string))

strip_lead_char(string, character, multiple) ==
    IF Len(string) = 0 THEN string
    ELSE LET i == strip_lead_index(string, character, multiple, 0) IN
         IF i < 0 THEN Panic ELSE SubSeq(string, i + 1, Len(string))

\* strip_prefix_chars stripping every leading occurrence of each character
RECURSIVE strip_prefix_chars_multiple(_, _, _)
strip_prefix_chars_multiple(rebase, prefix, k) ==
    IF k > Len(prefix) \/ rebase = Panic THEN rebase
    ELSE strip_prefix_chars_multiple(strip_lead_char(rebase, prefix[k], TRUE),
                                     prefix, k + 1)

\* for character in default_country.prefix.chars(), from the k-th on
RECURSIVE strip_prefix_chars(_, _, _)
strip_prefix_chars(rebase, prefix, k) ==
    IF k > Len(prefix) \/ rebase = Panic THEN rebase
    ELSE strip_prefix_chars(strip_lead_char(rebase, prefix[k], FALSE),
                            prefix, k + 1)

\* alternate_accepts giving up after the first country
RECURSIVE alternate_accepts_first_only(_, _, _)
alternate_accepts_first_only(rebase, countries, k) ==
    IF k > Len(countries) THEN FALSE
    ELSE /\ starts_with(rebase, countries[k].prefix)
         /\ Len(rebase) = 3 + countries[k].non_prefix_digits

\* alternate_accepts asking the last country only
RECURSIVE alternate_accepts_last_only(_, _, _)
alternate_accepts_last_only(rebase, countries, k) ==
    IF countries = <<>> THEN FALSE
    ELSE /\ starts_with(rebase, countries[Len(countries)].prefix)
         /\ Len(rebase) = 3 + countries[Len(countries)].non_prefix_digits

\* the scan of the alternate countries, from the k-th on: does one accept
RECURSIVE alternate_accepts(_, _, _)
alternate_accepts(rebase, countries, k) ==
    IF k > Len(countries) THEN FALSE
    ELSE IF /\ starts_with(rebase, countries[k].prefix)
            /\ Len(rebase) = 3 + countries[k].non_prefix_digits
    THEN TRUE
    ELSE alternate_accepts(rebase, countries, k + 1)

\* parse_default stripping the prefix from as many digits as the country has
parse_default_ge(rebase, country) ==
    IF Len(rebase) < country.non_prefix_digits
    THEN Err("too few non prefix digits")
    ELSE LET stripped == strip_prefix_chars(rebase, country.prefix, 1)
             trimmed == IF stripped = Panic THEN Panic
                        ELSE strip_lead_char(stripped, "0", FALSE)
         IN  IF trimmed = Panic THEN Err("panic")
             ELSE IF Len(trimmed) # country.non_prefix_digits
             THEN Err("incorrect number of non prefix digits")
             ELSE Ok(country.prefix \o trimmed)

\* parse_default taking a number shorter than the country's as it is
parse_default_no_short(rebase, country) ==
    IF Len(rebase) > country.non_prefix_digits
    THEN LET stripped == strip_prefix_chars(rebase, country.prefix, 1)
             trimmed == IF stripped = Panic THEN Panic
                        ELSE strip_lead_char(stripped, "0", FALSE)
         IN  IF trimmed = Panic THEN Err("panic")
             ELSE IF Len(trimmed) # country.non_prefix_digits
             THEN Err("incorrect number of non prefix digits")
             ELSE Ok(country.prefix \o trimmed)
    ELSE Ok(country.prefix \o rebase)

\* parse_default refusing only what is too short after the stripping
parse_default_no_upper(rebase, country) ==
    IF Len(rebase) < country.non_prefix_digits
    THEN Err("too few non prefix digits")
    ELSE IF Len(rebase) > country.non_prefix_digits
    THEN LET stripped == strip_prefix_chars(rebase, country.prefix, 1)
             trimmed == IF stripped = Panic THEN Panic
                        ELSE strip_lead_char(stripped, "0", FALSE)
         IN  IF trimmed = Panic THEN Err("panic")
             ELSE IF Len(trimmed) < country.non_prefix_digits
             THEN Err("incorrect number of non prefix digits")
             ELSE Ok(country.prefix \o trimmed)
    ELSE Ok(country.prefix \o rebase)

\* the default country's branch of Msisdn::parse
parse_default(rebase, country) ==
    IF Len(rebase) < country.non_prefix_digits
    THEN Err("too few non prefix digits")
    ELSE IF Len(rebase) > country.non_prefix_digits
    THEN LET stripped == strip_prefix_chars(rebase, country.prefix, 1)
             trimmed == IF stripped = Panic THEN Panic
                        ELSE strip_lead_char(stripped, "0", FALSE)
         IN  IF trimmed = Panic THEN Err("panic")
             ELSE IF Len(trimmed) # country.non_prefix_digits
             THEN Err("incorrect number of non prefix digits")
             ELSE Ok(country.prefix \o trimmed)
    ELSE Ok(country.prefix \o rebase)

\* Msisdn::parse
parse(number, country, alternates) ==
    LET rebase == strip_lead_char(NUMBERS_ONLY(number), "0", TRUE) IN
    IF rebase = Panic THEN Err("panic")
    ELSE IF alternates.some /\ alternate_accepts(rebase, alternates.value, 1)
    THEN Ok(rebase)
    ELSE parse_default(rebase, country)

\* the older client's normalizer: ONLY_NUMBERS and rm_lead_char are
\* NUMBERS_ONLY and strip_lead_char under other names, and the supported
\* countries are always given
Msisdn_new(number, country, supported_countries) ==
    LET rebase == strip_lead_char(NUMBERS_ONLY(number), "0", TRUE) IN
    IF rebase = Panic THEN Err("panic")
    ELSE IF alternate_accepts(rebase, supported_countries, 1)
    THEN Ok(rebase)
    ELSE parse_default(rebase, country)

----------------------------------------------------------------------------
(* The normalizer alone: inputs *)

Countries == {GHANA, NIGERIA}

\* a country made up by the caller: its numbers are as long as Ghana's
\* local numbers
SYNTHETIC == [code |-> "XX", prefix |-> <<"5","4","2">>, non_prefix_digits |-> 6]

Alternates ==
    {None, Some(<<GHANA>>), Some(<<NIGERIA>>),
     Some(<<GHANA, NIGERIA>>), Some(<<NIGERIA, GHANA>>)}

\* the digits the first three places of a generated local number are
\* drawn from, and the two fillings of its other places
HeadDigits == {"0", "2", "3", "4", "5"}

TailA == <<"3", "7", "3", "7", "2", "2", "9", "1">>

TailB == <<"0", "0", "0", "0", "0", "0", "0", "0">>

\* local numbers of n digits (n >= 3)
LocalNumbers(n) ==
    {<<a, b, c>> \o SubSeq(t, 1, n - 3) :
        a \in HeadDigits, b \in HeadDigits, c \in HeadDigits, t \in {TailA, TailB}}

\* a run of k copies of character c
RECURSIVE Run(_, _)
Run(c, k) == IF k = 0 THEN <<>> ELSE <<c>> \o Run(c, k - 1)

\* digits as a user may write them: as they are, or with a run of up to
\* MaxSeparators separators at one place
Written(digits) ==
    {digits} \cup
    {SubSeq(digits, 1, p) \o Run(c, k) \o SubSeq(digits, p + 1, Len(digits)) :
        p \in 0..Len(digits), c \in {"-"}, k \in 1..MaxSeparators}

\* the spellings of the local number d of country
Spellings(country, d) ==
    UNION {Written(digits) : digits \in {d, <<"0">> \o d}}
    \cup {<<"+">> \o w : w \in Written(country.prefix \o d)}
    \cup Written(<<"0", "0">> \o country.prefix \o d)

NormInit(numbers, alternates) ==
    /\ default_country \in Countries
    /\ alternate_countries \in alternates
    /\ mobile_number \in numbers[default_country]
    /\ parsed = NoResult
    /\ pc = "none"
    /\ caller = "none"
    /\ args = NoArgs
    /\ reauthorize = FALSE
    /\ collections_access_token = ""
    /\ callback_host = <<>>
    /\ base_url = <<>>
    /\ target_environment = ""
    /\ config = NoConfig
    /\ credentials = NoCredentials
    /\ request = NoRequest
    /\ response = NoResponse
    /\ result = NoResult
    /\ sends = 0
    /\ auths = 0
    /\ entered = FALSE
    /\ uuid = ""
    /\ other = NoCall
    /\ mutex = TRUE
    /\ CodecIdle
    /\ StripIdle

\* the caller normalizes the mobile number
Parse ==
    /\ parsed = NoResult
    /\ parsed' = parse(mobile_number, default_country, alternate_countries)
    /\ UNCHANGED <<mobile_number, default_country, alternate_countries>>
    /\ UNCHANGED <<clientVars, codecVars, stripVars>>

NormNext == Parse

\* the spellings of local numbers whose first two digits are not zero
SpelledNumbers ==
    [country \in Countries |->
    UNION {Spellings(country, d) :
             d \in {n \in LocalNumbers(country.non_prefix_digits) :
                      n[1] # "0" /\ n[2] # "0"}}]

SpelledInit == NormInit(SpelledNumbers, Alternates)

SpelledSpec == SpelledInit /\ [][NormNext]_vars

\* local numbers, any first digit, written with or without a leading 0
LocalWritten ==
    [country \in Countries |->
    UNION {Written(digits) :
             digits \in UNION {{d, <<"0">> \o d} :
                                 d \in LocalNumbers(country.non_prefix_digits)}}]

LocalInit == NormInit(LocalWritten, Alternates \cup {Some(<<SYNTHETIC>>)})

LocalSpec == LocalInit /\ [][NormNext]_vars

\* numbers of n digits whose first two digits vary
ShortHeads == {"0", "2", "5"}

VariedNumbers(n) ==
    {<<a, b>> \o SubSeq(TailA, 1, n - 2) : a \in ShortHeads, b \in ShortHeads}

\* numbers of Ghana, Nigeria and the synthetic country, and numbers one
\* digit shorter and longer, in all spellings
MixedNumbers ==
    [country \in Countries |->
    UNION {UNION {Spellings(A, d) :
                    d \in UNION {VariedNumbers(A.non_prefix_digits + k) :
                                   k \in {-1, 0, 1}}} :
             A \in {GHANA, NIGERIA, SYNTHETIC}}]

MixedAlternates ==
    Alternates \cup {Some(<<SYNTHETIC>>), Some(<<SYNTHETIC, NIGERIA>>)}

MixedInit == NormInit(MixedNumbers, MixedAlternates)

MixedSpec == MixedInit /\ [][NormNext]_vars

\* digit strings to cut short numbers from
ShortBases == {
    <<"1", "2", "3", "4", "5", "6", "7", "8">>,
    <<"0", "0", "0", "0", "0", "0", "0", "0">>,
    <<"2", "3", "3", "5", "4", "2", "3", "7">>,
    <<"2", "3", "4", "0", "5", "2", "3", "7">>,
    <<"0", "5", "4", "2", "3", "7", "3", "7">>,
    <<"5", "4", "2", "3", "7", "3", "7", "2">>}

\* numbers of fewer digits than the country's non_prefix_digits
ShortNumbers ==
    [country \in Countries |->
    UNION {Written(SubSeq(b, 1, n)) :
             b \in ShortBases, n \in 0..(country.non_prefix_digits - 1)}]

ShortInit == NormInit(ShortNumbers, Alternates)

ShortSpec == ShortInit /\ [][NormNext]_vars

\* characters the regex [^0-9]+ matches: a space, punctuation, a letter, and
\* two characters outside ASCII (U+0663 is a digit of another script)
NonDigits == {" ", "-", "+", "x", "U+00E9", "U+0663"}

RECURSIVE NonDigitStrings(_)
NonDigitStrings(n) ==
    IF n = 0 THEN {<<>>}
    ELSE LET shorter == NonDigitStrings(n - 1) IN
         shorter \cup {<<c>> \o w : c \in NonDigits, w \in {v \in shorter : Len(v) = n - 1}}

\* inputs without a digit, from the empty one to MaxNonDigits characters
DigitFreeNumbers == [country \in Countries |-> NonDigitStrings(MaxNonDigits)]

DigitFreeInit == NormInit(DigitFreeNumbers, Alternates)

DigitFreeSpec == DigitFreeInit /\ [][NormNext]_vars

\* digit strings to make over-long inputs from: local numbers of Ghana and
\* Nigeria and numbers one digit longer, alone, after the prefix, after the
\* prefix and a zero, and followed by two more digits
OverlongBodies ==
    UNION {UNION {{d, A.prefix \o d, A.prefix \o <<"0">> \o d,
                   A.prefix \o d \o <<"9", "1">>} :
                    d \in UNION {VariedNumbers(A.non_prefix_digits + k) :
                                   k \in {0, 1}}} :
             A \in Countries}

\* inputs of 13 to MaxDigits digits: the bodies behind leading zeros
OverlongNumbers ==
    [country \in Countries |->
    UNION {{Run("0", n - Len(b)) \o b : n \in {k \in 13..MaxDigits : k >= Len(b)}} :
             b \in OverlongBodies}]

OverlongInit == NormInit(OverlongNumbers, {Some(<<GHANA, NIGERIA>>)})

MsisdnNew ==
    /\ parsed = NoResult
    /\ alternate_countries.some
    /\ parsed' = Msisdn_new(mobile_number, default_country, alternate_countries.value)
    /\ UNCHANGED <<mobile_number, default_country, alternate_countries>>
    /\ UNCHANGED <<clientVars, codecVars, stripVars>>

OverlongNext == MsisdnNew

OverlongSpec == OverlongInit /\ [][OverlongNext]_vars

\* the digits after a prefix that is followed by too many: a non-zero digit
\* and n further ones
TooLargeTails(n) ==
    {<<first>> \o SubSeq(rest, 1, n) :
        first \in {"1", "2", "3", "5"},
        rest \in {TailA \o <<"0", "4">>, TailB \o <<"0", "0">>,
                  <<"3", "3", "3", "3", "3", "3", "3", "3", "3", "3">>}}

\* 0* prefix [1-9] [0-9]{n,} for n the country's non_prefix_digits
TooLargeNumbers ==
    [country \in Countries |->
    {Run("0", z) \o country.prefix \o t :
        z \in 0..MaxLeadZeros,
        t \in UNION {TooLargeTails(country.non_prefix_digits + k) : k \in {0, 1}}}]

TooLargeInit == NormInit(TooLargeNumbers, Alternates)

TooLargeSpec == TooLargeInit /\ [][NormNext]_vars

\* local numbers behind the country's prefix and up to MaxInnerZeros zeros,
\* written with and without a leading zero
ZeroPaddedNumbers ==
    [country \in Countries |->
    UNION {{Run("0", z) \o country.prefix \o Run("0", k) \o d :
              z \in 0..1, k \in 0..MaxInnerZeros} :
             d \in VariedNumbers(country.non_prefix_digits)}]

ZeroPaddedInit == NormInit(ZeroPaddedNumbers, Alternates)

ZeroPaddedSpec == ZeroPaddedInit /\ [][NormNext]_vars

\* the caller hands the normalized number to Msisdn::parse once more, with
\* the same default country and alternates
ParseAgain ==
    /\ parsed # NoResult
    /\ parsed.ok
    /\ mobile_number # parsed.value
    /\ mobile_number' = parsed.value
    /\ parsed' = parse(parsed.value, default_country, alternate_countries)
    /\ UNCHANGED <<default_country, alternate_countries>>
    /\ UNCHANGED <<clientVars, codecVars, stripVars>>

\* the numbers of MixedNumbers and of ZeroPaddedNumbers
RepeatedNumbers ==
    [country \in Countries |->
        MixedNumbers[country] \cup ZeroPaddedNumbers[country]]

RepeatedInit == NormInit(RepeatedNumbers, MixedAlternates)

RepeatedNext == Parse \/ ParseAgain

RepeatedSpec == RepeatedInit /\ [][RepeatedNext]_vars

\* the lists of one to three different countries, in every order
OrderedAlternates ==
    {None} \cup
    {Some(l) : l \in {m \in UNION {[1..n -> {GHANA, NIGERIA, SYNTHETIC}] : n \in 1..3} :
                        \A i, j \in 1..Len(m) : m[i] = m[j] => i = j}}

OrderedInit == NormInit(MixedNumbers, OrderedAlternates)

OrderedSpec == OrderedInit /\ [][NormNext]_vars

\* the strings of up to MaxStringLen digits out of 0, 2 and 3
StripStrings == UNION {[1..n -> {"0", "2", "3"}] : n \in 0..MaxStringLen}

StripCharacters == {"0", "2", "3", "5"}

StripInit ==
    /\ pc = "none"
    /\ caller = "none"
    /\ args = NoArgs
    /\ reauthorize = FALSE
    /\ collections_access_token = ""
    /\ callback_host = <<>>
    /\ base_url = <<>>
    /\ target_environment = ""
    /\ config = NoConfig
    /\ credentials = NoCredentials
    /\ request = NoRequest
    /\ response = NoResponse
    /\ result = NoResult
    /\ sends = 0
    /\ auths = 0
    /\ entered = FALSE
    /\ uuid = ""
    /\ other = NoCall
    /\ mutex = TRUE
    /\ mobile_number = <<>>
    /\ default_country = GHANA
    /\ alternate_countries = <<>>
    /\ parsed = NoResult
    /\ CodecIdle
    /\ strip_string \in StripStrings
    /\ strip_character \in StripCharacters
    /\ strip_multiple \in BOOLEAN
    /\ strip_result = NoResult

\* the caller strips the leading character
StripLeadChar ==
    /\ strip_result = NoResult
    /\ strip_result' =
          LET rest == strip_lead_char(strip_string, strip_character,
                                      strip_multiple)
          IN  IF rest = Panic THEN Err("panic") ELSE Ok(rest)
    /\ UNCHANGED <<strip_string, strip_character, strip_multiple>>
    /\ UNCHANGED <<clientVars, normVars, codecVars>>

StripNext == StripLeadChar

StripSpec == StripInit /\ [][StripNext]_vars

----------------------------------------------------------------------------
(* Properties of the client *)

OpKinds == {"requesttopay", "status", "balance"}

\* the success status of an operation
SuccessStatus(op) == IF op = "request_to_pay" THEN ACCEPTED ELSE OK

\* C1: within one invocation of an operation the client sends at most one
\* token request and at most two operation requests (the first send and one
\* replay); a second 401 is returned as a failure.
C1_SingleShotRetry ==
    (caller \in Ops) => (auths <= 1 /\ sends <= 2)

\* C2: every invocation of an operation returns, whatever the gateway
\* answers.
C2_Termination ==
    (caller \in Ops) ~> (pc = "idle")

\* C3: new sends exactly one token request; it returns a client, holding
\* the token of the answer and reauthorize = true, if and only if the
\* answer is a 200 bearing a token; a client that exists holds a token of
\* the gateway and every operation request bears one.
C3_ConstructionAllOrNothing ==
    /\ [](pc = "idle" => collections_access_token \in Tokens)
    /\ [](request.kind \in OpKinds => request.bearer \in Tokens)
    /\ [][(caller = "new" /\ caller' # "new") =>
            /\ auths' = 1
            /\ sends' = 0
            /\ IF response'.delivered /\ response'.status = OK
                  /\ response'.body \in Tokens
               THEN /\ pc' = "idle"
                    /\ result'.ok
                    /\ collections_access_token' = response'.body
                    /\ reauthorize' = TRUE
               ELSE /\ pc' = "none"
                    /\ ~result'.ok]_vars

C3_Witness ==
    /\ pc = "op"
    /\ request.kind = "requesttopay"
    /\ request.bearer \in Tokens
    /\ auths = 0

\* C4: whenever no call is in progress, reauthorize is true.
C4_MayRetryWhenIdle ==
    pc = "idle" => reauthorize

\* C5: when the token endpoint answers the re-authorization of an operation
\* with a status other than 200, the operation returns the authorization
\* error and hands no further request to the transport.
C5_ReauthorizationFailure ==
    [][(pc = "token" /\ caller \in Ops
          /\ response'.delivered /\ response'.status # OK) =>
        /\ pc' = "idle"
        /\ result' = Err("authorization")
        /\ request' = request
        /\ sends' = sends
        /\ auths' = auths]_vars

C5_Witness ==
    /\ pc = "idle"
    /\ result = Err("authorization")
    /\ request.kind = "token"
    /\ response.status = 500
    /\ sends = 1

\* C6: a status other than the operation's success status and other than
\* 401 makes the operation return an operation error at once: no token
\* request, no replay, token and reauthorize as before.
C6_OtherStatusFails ==
    [][(pc = "op" /\ response'.delivered
          /\ response'.status \notin {SuccessStatus(caller), UNAUTHORIZED}) =>
        /\ pc' = "idle"
        /\ result' = Err("operation")
        /\ request' = request
        /\ sends' = sends
        /\ auths' = auths
        /\ collections_access_token' = collections_access_token
        /\ reauthorize' = reauthorize]_vars

C6_Witness ==
    /\ pc = "idle"
    /\ result = Err("operation")
    /\ request.kind = "requesttopay"
    /\ response.delivered
    /\ response.status = OK

\* the sandbox placeholder hosts
PlaceholderHosts == {FALLBACK_CALLBACK_HOST, MOCKY_IO}

\* a request_to_pay request is handed to the transport in this step
PaySent == pc # "op" /\ pc' = "op" /\ caller' = "request_to_pay"

IsMsisdn(s) ==
    \E country \in {GHANA, NIGERIA} :
        /\ starts_with(s, country.prefix)
        /\ Len(s) = 3 + country.non_prefix_digits
        /\ \A i \in 1..Len(s) : IsDigit(s[i])

\* C8: the payer partyId of every request_to_pay request is a canonical
\* subscriber number.
C8_PartyIdIsMsisdn ==
    request.kind = "requesttopay" => IsMsisdn(request.partyId)

----------------------------------------------------------------------------
(* Properties of the normalizer *)

\* the last n digits written in a mobile number
LastDigits(number, n) ==
    LET digits == SelectSeq(number, IsDigit) IN
    SubSeq(digits, Len(digits) - n + 1, Len(digits))

\* the local number a generated mobile number ends with
LocalPart == LastDigits(mobile_number, default_country.non_prefix_digits)

\* C9: d, 0d, +prefix d and 00prefix d, with separators, all normalize to
\* prefix ++ d when the first two digits of d are not zero.
C9_SpellingsAgree ==
    parsed # NoResult => parsed = Ok(default_country.prefix \o LocalPart)

C9_Witness ==
    /\ default_country = GHANA
    /\ mobile_number = <<"+">> \o CanonicalMobileNumber
    /\ parsed = Ok(CanonicalMobileNumber)

\* C10 as stated: an optional single 0 followed by non_prefix_digits digits d
\* that do not begin with the country prefix normalizes to prefix ++ d.
C10_LocalNumbers ==
    (parsed # NoResult /\ ~starts_with(LocalPart, default_country.prefix)) =>
        parsed = Ok(default_country.prefix \o LocalPart)

\* an alternate country takes the digits as one of its numbers
TakenByAlternate(digits) ==
    /\ alternate_countries.some
    /\ \E k \in 1..Len(alternate_countries.value) :
          /\ starts_with(digits, alternate_countries.value[k].prefix)
          /\ Len(digits) = 3 + alternate_countries.value[k].non_prefix_digits

\* C10 amended: an optional single 0 followed by non_prefix_digits digits d
\* that begin neither with 0 nor with the country prefix, and that no
\* alternate country takes as one of its numbers, normalizes to prefix ++ d.
C10_LocalNumbersAmended ==
    (/\ parsed # NoResult
     /\ ~starts_with(LocalPart, default_country.prefix)
     /\ LocalPart[1] # "0"
     /\ ~TakenByAlternate(LocalPart)) =>
        parsed = Ok(default_country.prefix \o LocalPart)

C10_Witness ==
    /\ default_country = NIGERIA
    /\ alternate_countries = Some(<<GHANA>>)
    /\ mobile_number = <<"0", "5", "-", "0", "2", "3", "7", "3", "7", "2">>
    /\ parsed = Ok(<<"2", "3", "4", "5", "0", "2", "3", "7", "3", "7", "2">>)


\* the digits written in a mobile number, without the leading zeros
RECURSIVE DropZeros(_)
DropZeros(digits) ==
    IF digits # <<>> /\ Head(digits) = "0" THEN DropZeros(Tail(digits))
    ELSE digits

SignificantDigits == DropZeros(SelectSeq(mobile_number, IsDigit))

\* C11: digits that begin with the prefix of a supplied alternate country
\* and are 3 + its non_prefix_digits long are returned as they are, whatever
\* the default country.
C11_AlternateAcceptance ==
    (parsed # NoResult /\ TakenByAlternate(SignificantDigits)) =>
        parsed = Ok(SignificantDigits)

C11_Witness ==
    /\ default_country = GHANA
    /\ alternate_countries = Some(<<GHANA, NIGERIA>>)
    /\ mobile_number = <<"0", "0", "2", "3", "4", "-", "5", "2", "3", "7", "3", "7", "2", "2">>
    /\ parsed = Ok(<<"2", "3", "4", "5", "2", "3", "7", "3", "7", "2", "2">>)


DigitCount == Len(SelectSeq(mobile_number, IsDigit))

\* C12: an input with fewer digits than the default country's
\* non_prefix_digits gets the too-few-digits error, with or without Ghana
\* and Nigeria as alternates, and never a Msisdn.
C12_TooShortFails ==
    (parsed # NoResult /\ DigitCount < default_country.non_prefix_digits) =>
        parsed = Err("too few non prefix digits")

C12_Witness ==
    /\ default_country = GHANA
    /\ alternate_countries = Some(<<GHANA, NIGERIA>>)
    /\ mobile_number = <<"1", "2", "3", "4", "5">>
    /\ parsed = Err("too few non prefix digits")


\* C13: an input without an ASCII digit gets an error: the parse neither
\* panics on the empty string of digits nor returns an empty or prefix-only
\* Msisdn.
C13_DigitFreeFails ==
    (parsed # NoResult /\ \A i \in 1..Len(mobile_number) : ~IsDigit(mobile_number[i])) =>
        /\ ~parsed.ok
        /\ parsed # Err("panic")
        /\ parsed = Err("too few non prefix digits")

C13_Witness ==
    /\ mobile_number = <<>>
    /\ default_country = GHANA
    /\ alternate_countries = None
    /\ parsed = Err("too few non prefix digits")


\* the default country and the supplied alternates
KnownCountries ==
    {default_country} \cup
    (IF alternate_countries.some
     THEN {alternate_countries.value[i] : i \in 1..Len(alternate_countries.value)}
     ELSE {})

\* C14: a value the normalizer returns consists of ASCII digits only, begins
\* with the prefix of the default country or of a supplied alternate, and is
\* 3 + non_prefix_digits of that same country long.
C14_WellFormed ==
    (parsed # NoResult /\ parsed.ok) =>
        /\ \A i \in 1..Len(parsed.value) : IsDigit(parsed.value[i])
        /\ \E country \in KnownCountries :
              /\ starts_with(parsed.value, country.prefix)
              /\ Len(parsed.value) = 3 + country.non_prefix_digits

C14_Witness ==
    /\ default_country = GHANA
    /\ alternate_countries = Some(<<SYNTHETIC, NIGERIA>>)
    /\ mobile_number = <<"+", "5", "4", "2", "-", "2", "5", "3", "7", "3", "7">>
    /\ parsed = Ok(<<"5", "4", "2", "2", "5", "3", "7", "3", "7">>)


\* C15: with default Ghana and supported countries Ghana and Nigeria,
\* Msisdn::new returns an error for every input of 13 or more ASCII digits.
C15_OverlongFails ==
    ( /\ parsed # NoResult
      /\ default_country = GHANA
      /\ alternate_countries = Some(<<GHANA, NIGERIA>>)
      /\ Len(mobile_number) >= 13
      /\ \A i \in 1..Len(mobile_number) : IsDigit(mobile_number[i]) ) =>
        ~parsed.ok


\* the digits of the input behind its leading zeros and the default
\* country's prefix
AfterPrefix ==
    SubSeq(SignificantDigits, 4, Len(SignificantDigits))

\* C16: without alternates, zeros, the default country's prefix, a
\* non-zero digit and at least non_prefix_digits further digits get the
\* incorrect-digit-count error.
C16_TooLargeFails ==
    ( /\ parsed # NoResult
      /\ ~alternate_countries.some
      /\ starts_with(SignificantDigits, default_country.prefix)
      /\ Len(AfterPrefix) > default_country.non_prefix_digits
      /\ Head(AfterPrefix) # "0" ) =>
        parsed = Err("incorrect number of non prefix digits")

C16_Witness ==
    /\ default_country = NIGERIA
    /\ alternate_countries = None
    /\ mobile_number = <<"0", "0", "2", "3", "4", "3", "3", "3", "3", "3", "3", "3", "3", "3">>
    /\ parsed = Err("incorrect number of non prefix digits")


WireOf(m) ==
    CASE m = "Resolved" -> "SUCCESSFUL"
      [] m = "Rejected" -> "FAILED"
      [] m = "Pending" -> "PENDING"
      [] m = "Cedi" -> "GHS"
      [] m = "Naira" -> "NGN"

RoundTrips(wires) ==
    /\ (given.is = "member" /\ encoded.some) => encoded.value = WireOf(given.value)
    /\ (given.is = "member" /\ decoded # NoResult) => decoded = Ok(given.value)
    /\ (given.is = "string" /\ given.value \in wires /\ decoded # NoResult) =>
           decoded.ok
    /\ (given.is = "string" /\ given.value \in wires /\ encoded.some) =>
           encoded.value = given.value

\* C17: a PaymentStatus formatted and parsed back is the same member, its
\* strings being SUCCESSFUL, FAILED and PENDING; each of these strings
\* parsed and formatted back is the same string.
C17_PaymentStatusRoundTrip ==
    codec = "PaymentStatus" => RoundTrips({"SUCCESSFUL", "FAILED", "PENDING"})

C17_Witness ==
    /\ codec = "PaymentStatus"
    /\ given = GivenMember("Rejected")
    /\ encoded = Some("FAILED")
    /\ decoded = Ok("Rejected")


\* the strings of the three members of PaymentStatus
StatusWires == {"SUCCESSFUL", "FAILED", "PENDING"}

\* C18: from_str fails on every string other than SUCCESSFUL, FAILED and
\* PENDING, and request_to_pay_status answered 200 with such a status
\* string returns that failure at once: no token request, no replay, no
\* PaymentStatus.
C18_UnknownStatusFatal ==
    [][/\ \A w \in (WireStrings \cup PaymentStatusStrings) \ StatusWires :
             ~from_str(w).ok
       /\ (pc = "op" /\ caller = "request_to_pay_status"
             /\ response'.delivered /\ response'.status = OK
             /\ response'.body \in PaymentStatusStrings \ StatusWires) =>
           /\ pc' = "idle"
           /\ ~result'.ok
           /\ result' = Err("unknown payment status")
           /\ request' = request
           /\ sends' = sends
           /\ auths' = auths
           /\ collections_access_token' = collections_access_token
           /\ reauthorize' = reauthorize]_vars

C18_Witness ==
    /\ pc = "idle"
    /\ result = Err("unknown payment status")
    /\ request.kind = "status"
    /\ response.status = OK
    /\ response.body = "Pending"
    /\ sends = 1
    /\ auths = 0

\* C19: a Currency formatted and parsed back is the same member, its
\* strings being GHS and NGN; each of these strings parsed and formatted
\* back is the same string; from_str fails on every other string.
C19_CurrencyCodec ==
    codec = "Currency" =>
        /\ RoundTrips({"GHS", "NGN"})
        /\ (given.is = "string" /\ given.value \notin {"GHS", "NGN"}
              /\ decoded # NoResult) => ~decoded.ok

C19_Witness ==
    /\ codec = "Currency"
    /\ given = GivenString("NGN")
    /\ decoded = Ok("Naira")
    /\ encoded = Some("NGN")


\* C20: a client constructed from a Config with neither base_url nor
\* callback_host has target_environment "sandbox", base_url
\* "https://sandbox.momodeveloper.mtn.com/" and callback_host "www.mocky.io".
C20_ConstructionDefaults ==
    (pc # "none" /\ caller # "new"
       /\ ~config.base_url.some /\ ~config.callback_host.some) =>
        /\ target_environment = "sandbox"
        /\ base_url = <<"h","t","t","p","s",":","/","/","s","a","n","d","b","o","x",".",
                        "m","o","m","o","d","e","v","e","l","o","p","e","r",".",
                        "m","t","n",".","c","o","m","/">>
        /\ callback_host = <<"w","w","w",".","m","o","c","k","y",".","i","o">>

C20_Witness ==
    /\ pc = "idle"
    /\ result = Ok("client")
    /\ config = [base_url |-> None, callback_host |-> None]
    /\ target_environment = SANDBOX
    /\ base_url = SANDBOX_BASE_URL
    /\ callback_host = FALLBACK_CALLBACK_HOST


\* the number of '/' characters a string ends with
RECURSIVE TrailingSlashes(_)
TrailingSlashes(string) ==
    IF string # <<>> /\ string[Len(string)] = "/"
    THEN 1 + TrailingSlashes(SubSeq(string, 1, Len(string) - 1))
    ELSE 0

\* C21: the base_url a constructed client holds ends with exactly one '/',
\* whatever the Config's base_url, so the url of a request has one slash
\* where the path is joined.
C21_BaseUrlOneSlash ==
    (pc # "none" /\ caller # "new") =>
        /\ TrailingSlashes(base_url) = 1
        /\ request.kind = "balance" =>
              ~ends_with(request.url, <<"/", "/">> \o BALANCE_PATH)


\* the Config's base_url begins with https://momodeveloper.mtn.com
ProductionConfigured ==
    /\ config.base_url.some
    /\ Len(config.base_url.value) >= 29
    /\ SubSeq(config.base_url.value, 1, 29) =
         <<"h","t","t","p","s",":","/","/","m","o","m","o","d","e","v","e","l",
           "o","p","e","r",".","m","t","n",".","c","o","m">>

C23_TransportFailureNotRetried ==
    [][(pc \in {"token", "op"} /\ ~response'.delivered) =>
        /\ pc' = IF caller = "new" THEN "none" ELSE "idle"
        /\ caller' = "none"
        /\ result' = Err("transport")
        /\ request' = request
        /\ sends' = sends
        /\ auths' = auths
        /\ collections_access_token' = collections_access_token]_vars

C23_Witness ==
    /\ pc = "idle"
    /\ result = Err("transport")
    /\ request.kind = "token"
    /\ ~response.delivered
    /\ sends = 1
    /\ auths = 1


\* the invocation of the caller that runs
Current ==
    [pc |-> pc, caller |-> caller, args |-> args, request |-> request,
     response |-> response, result |-> result, sends |-> sends,
     auths |-> auths, entered |-> entered]

\* a call entered with reauthorize = true whose request was answered 401
\* and that returned the operation error without a token request
FailedUnretried(call) ==
    /\ call.entered
    /\ call.pc = "idle"
    /\ call.request.kind \in OpKinds
    /\ call.response.delivered
    /\ call.response.status = UNAUTHORIZED
    /\ call.result = Err("operation")
    /\ call.auths = 0

\* C24: when two callers of one client take turns call by call, no call
\* entered with reauthorize = true returns the operation error on a 401
\* without re-authorizing; without that discipline a caller's
\* authorize_collections in flight makes the other caller's call do so.
C24_SerializedCallersRetry ==
    mutex => ~FailedUnretried(Current) /\ ~FailedUnretried(other)

C24_Witness ==
    /\ ~mutex
    /\ FailedUnretried(Current)
    /\ ~reauthorize
    /\ other.pc = "token"
    /\ other.caller = "authorize_collections"


\* C25: authorize_collections sets reauthorize = false before it sends the
\* token request; on a 200 it stores the token of the body and sets
\* reauthorize = true; on another status it returns the authorization
\* error, the token is as before and reauthorize stays false.
C25_AuthorizeSteps ==
    /\ [](pc = "token" => ~reauthorize /\ request.kind = "token")
    /\ [][(pc = "token" /\ response'.delivered /\ response'.status = OK
             /\ response'.body \in Tokens) =>
            /\ collections_access_token' = response'.body
            /\ reauthorize' = TRUE]_vars
    /\ [][(pc = "token" /\ response'.delivered /\ response'.status # OK) =>
            /\ result' = Err("authorization")
            /\ pc' \in {"none", "idle"}
            /\ collections_access_token' = collections_access_token
            /\ reauthorize' = FALSE]_vars

C25_Witness ==
    /\ pc = "idle"
    /\ result = Err("authorization")
    /\ request.kind = "token"
    /\ response.status = UNAUTHORIZED
    /\ sends = 0
    /\ ~reauthorize
    /\ collections_access_token \in Tokens


\* C26: a token request follows an operation request only when that request
\* was answered 401 while reauthorize was true; an operation request
\* follows a token request only when the token endpoint answered 200, and
\* it bears the token of that answer; a 401 while reauthorize is false is
\* followed by neither.
C26_RetryOrder ==
    /\ [][(pc = "op" /\ pc' = "token") =>
            /\ reauthorize
            /\ response'.delivered
            /\ response'.status = UNAUTHORIZED
            /\ request'.kind = "token"]_vars
    /\ [][(pc = "token" /\ pc' = "op") =>
            /\ response'.delivered
            /\ response'.status = OK
            /\ response'.body \in Tokens
            /\ request'.kind \in OpKinds
            /\ request'.bearer = response'.body
            /\ sends' = Bump(sends)]_vars
    /\ [][(pc = "op" /\ ~reauthorize /\ response'.delivered
             /\ response'.status = UNAUTHORIZED) =>
            /\ pc' = "idle"
            /\ result' = Err("operation")
            /\ request' = request
            /\ sends' = sends
            /\ auths' = auths]_vars

C26_Witness ==
    /\ pc = "op"
    /\ request.kind = "requesttopay"
    /\ sends = 2
    /\ auths = 1
    /\ response.body = "token-2"
    /\ request.bearer = "token-2"


\* digits without one leading occurrence of each character of prefix, taken
\* in sequence from the k-th on
RECURSIVE WithoutPrefixChars(_, _, _)
WithoutPrefixChars(digits, prefix, k) ==
    IF k > Len(prefix) THEN digits
    ELSE WithoutPrefixChars(
             IF digits # <<>> /\ Head(digits) = prefix[k] THEN Tail(digits)
             ELSE digits,
             prefix, k + 1)

\* C27: when more digits remain than the default country's
\* non_prefix_digits, one leading occurrence of each prefix character is
\* stripped, then every leading zero, and the number is accepted exactly
\* when non_prefix_digits digits are left.
C27_OverLengthStep ==
    (/\ parsed # NoResult
     /\ ~TakenByAlternate(SignificantDigits)
     /\ Len(SignificantDigits) > default_country.non_prefix_digits) =>
        LET left == DropZeros(WithoutPrefixChars(SignificantDigits,
                                                 default_country.prefix, 1))
        IN  IF Len(left) = default_country.non_prefix_digits
            THEN parsed = Ok(default_country.prefix \o left)
            ELSE ~parsed.ok


\* C28: with no callback url argument a request_to_pay request is sent, and
\* carries the fallback url, exactly when the callback host is a placeholder
\* host; with every other host, one that ends in mocky.io included, nothing
\* is sent and the call returns the configuration error.
C28_FallbackOnlyForPlaceholder ==
    [][/\ (PaySent /\ ~args'.callback_url.some) =>
            /\ callback_host \in PlaceholderHosts
            /\ request'.callback_url = FALLBACK_CALLBACK_URL
       /\ (pc = "idle" /\ pc' = "idle") =>
            /\ result' = Err("configuration")
            /\ ~args'.callback_url.some
            /\ callback_host \notin PlaceholderHosts]_vars


\* a request_to_pay request goes out once more after a re-authorization
PayReplayed == pc = "token" /\ pc' = "op" /\ caller' = "request_to_pay"

\* C29: every request_to_pay request, first or replayed, carries one
\* identifier as X-Reference-Id and as externalId; the request replayed
\* after a re-authorization carries a newly generated identifier, which is
\* not the one of the request answered 401; and a call that succeeds
\* returns the identifier of the request that was answered 202.
C29_ReferenceIdCorrelation ==
    /\ [](request.kind = "requesttopay" =>
            /\ request.reference_id \in Uuids
            /\ request.externalId = request.reference_id)
    /\ [][/\ (pc = "op" /\ caller = "request_to_pay" /\ pc' = "token") =>
                uuid' = request.reference_id
          /\ PayReplayed =>
                /\ request'.reference_id = uuid'
                /\ request'.reference_id # uuid
          /\ (pc = "op" /\ caller = "request_to_pay" /\ pc' = "idle"
                /\ result'.ok) =>
                /\ response'.status = ACCEPTED
                /\ result' = Ok(request.reference_id)
                /\ request' = request]_vars

C29_Witness ==
    /\ pc = "idle"
    /\ request.kind = "requesttopay"
    /\ sends = 2
    /\ auths = 1
    /\ response.status = ACCEPTED
    /\ result = Ok("uuid-2")
    /\ request.reference_id = "uuid-2"
    /\ request.externalId = "uuid-2"


\* C30: a normalized number handed to the normalizer once more, with the
\* same default country and alternates, is accepted and returned as it is.
C30_Idempotent ==
    [][(parsed # NoResult /\ parsed.ok /\ mobile_number' = parsed.value) =>
            parsed' = parsed]_vars


\* the significant digits are the whole prefix of the default country, then
\* at most one 0, then non_prefix_digits digits
PrefixedByDefault ==
    /\ starts_with(SignificantDigits, default_country.prefix)
    /\ \/ Len(AfterPrefix) = default_country.non_prefix_digits
       \/ /\ Len(AfterPrefix) = default_country.non_prefix_digits + 1
          /\ Head(AfterPrefix) = "0"

\* C31: over-length digits that no alternate takes are accepted only when
\* they are the whole default prefix, at most one 0 and non_prefix_digits
\* digits, and then only as the prefix and those digits; all other
\* over-length digits get the incorrect-digit-count error.
C31_NoDigitLoss ==
    (/\ parsed # NoResult
     /\ ~TakenByAlternate(SignificantDigits)
     /\ Len(SignificantDigits) > default_country.non_prefix_digits) =>
        IF PrefixedByDefault
        THEN parsed.ok =>
                parsed.value =
                    default_country.prefix \o
                    SubSeq(SignificantDigits,
                           Len(SignificantDigits)
                               - default_country.non_prefix_digits + 1,
                           Len(SignificantDigits))
        ELSE parsed = Err("incorrect number of non prefix digits")


\* the lists that hold the countries of list l in another order, and l
Reorderings(l) ==
    {[i \in 1..Len(l) |-> l[f[i]]] :
        f \in {g \in [1..Len(l) -> 1..Len(l)] :
                 \A i, j \in 1..Len(l) : g[i] = g[j] => i = j}}

\* C32: the normalizer returns the same value, or the same error, for the
\* alternates in every order.
C32_OrderIndependent ==
    (parsed # NoResult /\ alternate_countries.some) =>
        \A l \in Reorderings(alternate_countries.value) :
            parse(mobile_number, default_country, Some(l)) = parsed

C32_Witness ==
    /\ default_country = GHANA
    /\ alternate_countries = Some(<<SYNTHETIC, GHANA, NIGERIA>>)
    /\ mobile_number = <<"+", "2", "3", "4", "5", "2", "3", "7", "3", "7", "2", "2">>
    /\ parsed = Ok(<<"2", "3", "4", "5", "2", "3", "7", "3", "7", "2", "2">>)


\* C33: collections_access_token changes only when authorize_collections
\* is answered 200, and then to the token of that answer; an operation that
\* returns without a 401, an authorize_collections that fails and a
\* configuration error leave it as it was; and once the client is
\* constructed nothing changes its credentials, base_url,
\* target_environment or callback_host.
C33_TokenFrame ==
    [][/\ collections_access_token' # collections_access_token =>
            /\ pc = "token"
            /\ response'.delivered
            /\ response'.status = OK
            /\ collections_access_token' = response'.body
            /\ collections_access_token' \in Tokens
       /\ (pc = "token" /\ pc' # "op" /\ ~result'.ok) =>
            collections_access_token' = collections_access_token
       /\ pc # "none" =>
            /\ credentials' = credentials
            /\ base_url' = base_url
            /\ target_environment' = target_environment
            /\ callback_host' = callback_host]_vars

C33_Witness ==
    /\ pc = "idle"
    /\ credentials \in Credentials
    /\ collections_access_token = "token-1"
    /\ request.kind = "token"
    /\ response.delivered
    /\ response.status = 500
    /\ result = Err("authorization")
    /\ auths = 1
    /\ sends = 1


\* s without its leading run of c
RECURSIVE WithoutRun(_, _)
WithoutRun(s, c) ==
    IF s # <<>> /\ Head(s) = c THEN WithoutRun(Tail(s), c) ELSE s

\* C34: strip_lead_char returns, without reading past the end of the
\* string, a suffix of it: the string without its first character when it
\* begins with the character and multiple is false, the string without its
\* whole leading run of the character when multiple is true, and the string
\* itself when it does not begin with the character.
C34_StripLeadChar ==
    strip_result # NoResult =>
        /\ strip_result.ok
        /\ \E i \in 0..Len(strip_string) :
              strip_result.value = SubSeq(strip_string, i + 1, Len(strip_string))
        /\ strip_result.value =
              IF strip_multiple THEN WithoutRun(strip_string, strip_character)
              ELSE IF strip_string # <<>> /\ Head(strip_string) = strip_character
              THEN Tail(strip_string)
              ELSE strip_string

C34_Witness ==
    /\ strip_string = <<"0", "0", "0">>
    /\ strip_character = "0"
    /\ strip_multiple
    /\ strip_result = Ok(<<>>)

====
